---- MODULE Spec2Model ----
(***************************************************************************)
(* Model of the lexical analyzer of src/tokenizer.py (class Tokenizer).    *)
(*                                                                         *)
(* A source text is a sequence of one-character strings.  Offsets are      *)
(* 0-based as in Python: the character at offset p is src[p + 1].          *)
(* A token is a record [type, value, line, column] as the NamedTuple Token.*)
(***************************************************************************)
EXTENDS Integers, Sequences, FiniteSets, TLC

VARIABLES source_code, position, line, column, tokens,
          pc, returned, starts, consumed

vars == <<source_code, position, line, column, tokens,
          pc, returned, starts, consumed>>

----------------------------------------------------------------------------
(* Bounds of the exploration.                                              *)

\* a source text is the concatenation of at most MaxPieces pieces
MaxPieces == 3

\* tokenize() is entered at most MaxCalls times on one Tokenizer
MaxCalls == 2

----------------------------------------------------------------------------
(* Character classes of the regular expressions.                           *)

Digits ==
    {"0", "1", "2", "3", "4", "5", "6", "7", "8", "9"}

Letters ==
    {"a", "b", "c", "d", "e", "f", "g", "h", "i", "j", "k", "l", "m",
     "n", "o", "p", "q", "r", "s", "t", "u", "v", "w", "x", "y", "z",
     "A", "B", "C", "D", "E", "F", "G", "H", "I", "J", "K", "L", "M",
     "N", "O", "P", "Q", "R", "S", "T", "U", "V", "W", "X", "Y", "Z"}

\* [ \t]
Blank == {" ", "\t"}

\* [a-zA-Z_]
IdentStart == Letters \cup {"_"}

\* [a-zA-Z0-9_]
IdentPart == Letters \cup Digits \cup {"_"}

----------------------------------------------------------------------------
(* The source texts explored: concatenations of pieces.  The one-character *)
(* pieces give arbitrary short texts; the longer ones make the reserved    *)
(* words, a string literal that spans a line break and a comment that      *)
(* holds a quote occur.                                                    *)

Pieces ==
    { <<"i">>, <<"1">>, <<"=">>, <<"!">>, <<"\"">>, <<"#">>,
      <<"\n">>, <<" ">>, <<"@">>,
      <<"i", "f">>,
      <<"e", "l", "s", "e">>,
      <<"w", "h", "i", "l", "e">>,
      <<"r", "e", "t", "u", "r", "n">>,
      <<"\"", "\n", "\"">>,
      <<"#", "\"">> }

RECURSIVE Concats(_)
Concats(n) ==
    IF n = 0 THEN { <<>> }
    ELSE LET prev == Concats(n - 1)
         IN  prev \cup { p \o w : p \in prev, w \in Pieces }

Sources == Concats(MaxPieces)

\* the character of src at 0-based offset p (src[p] in Python)
CharAt(src, p) == src[p + 1]

\* src[p:p+n] in Python
Slice(src, p, n) == SubSeq(src, p + 1, p + n)

----------------------------------------------------------------------------
(* Regular-expression matching, regex.match(source_code, position).        *)

\* the number of consecutive characters of src from offset p that are in cls
RECURSIVE RunLen(_, _, _)
RunLen(src, p, cls) ==
    IF p < Len(src) /\ CharAt(src, p) \in cls
    THEN 1 + RunLen(src, p + 1, cls)
    ELSE 0

\* the number of consecutive characters of src from offset p that are not in cls
RECURSIVE RunLenNot(_, _, _)
RunLenNot(src, p, cls) ==
    IF p < Len(src) /\ CharAt(src, p) \notin cls
    THEN 1 + RunLenNot(src, p + 1, cls)
    ELSE 0

\* does the literal text lit occur in src at offset p
LitAt(src, p, lit) ==
    /\ p + Len(lit) <= Len(src)
    /\ Slice(src, p, Len(lit)) = lit

\* r'[ \t]+' : length of the match at p, 0 when there is none
WhitespaceMatch(src, p) == RunLen(src, p, Blank)

\* the comment rule written to take the line break too, r'#[^\n]*\n?'
CommentMatch_ThroughNewline(src, p) ==
    IF p < Len(src) /\ CharAt(src, p) = "#"
    THEN LET n == RunLenNot(src, p + 1, {"\n"})
         IN  IF p + 1 + n < Len(src) THEN n + 2 ELSE n + 1
    ELSE 0

\* r'#[^\n]*'
CommentMatch(src, p) ==
    IF p < Len(src) /\ CharAt(src, p) = "#"
    THEN 1 + RunLenNot(src, p + 1, {"\n"})
    ELSE 0

\* r'\d+'
NumberMatch(src, p) == RunLen(src, p, Digits)

\* the string rule written with an optional closing quote, r'"[^"]*"?'
StringMatch_OptionalClose(src, p) ==
    IF p < Len(src) /\ CharAt(src, p) = "\""
    THEN LET n == RunLenNot(src, p + 1, {"\""})
         IN  IF p + 1 + n < Len(src) THEN n + 2 ELSE n + 1
    ELSE 0

\* r'"[^"]*"' : the greedy run of non-quotes must be followed by a quote
StringMatch(src, p) ==
    IF p < Len(src) /\ CharAt(src, p) = "\""
    THEN LET n == RunLenNot(src, p + 1, {"\""})
         IN  IF p + 1 + n < Len(src) THEN n + 2 ELSE 0
    ELSE 0

\* r'[a-zA-Z_][a-zA-Z0-9_]*'
IdentifierMatch(src, p) ==
    IF p < Len(src) /\ CharAt(src, p) \in IdentStart
    THEN 1 + RunLen(src, p + 1, IdentPart)
    ELSE 0

\* a pattern that is a literal text
LiteralMatch(src, p, lit) == IF LitAt(src, p, lit) THEN Len(lit) ELSE 0

\* one rule of the table: the kind of its regular expression and, for a
\* literal, its text
Rule(re, lit, type) == [re |-> re, lit |-> lit, type |-> type]

\* the length of the match of rule r at offset p of src, 0 for no match
\* (no pattern of the table matches the empty text)
MatchLen(r, src, p) ==
    CASE r.re = "whitespace" -> WhitespaceMatch(src, p)
      [] r.re = "comment"    -> CommentMatch(src, p)
      [] r.re = "number"     -> NumberMatch(src, p)
      [] r.re = "string"     -> StringMatch(src, p)
      [] r.re = "identifier" -> IdentifierMatch(src, p)
      [] OTHER               -> LiteralMatch(src, p, r.lit)

----------------------------------------------------------------------------
(* The tables of the class.                                                *)

\* the text of a reserved word as a sequence of characters
If == <<"i", "f">>
Else == <<"e", "l", "s", "e">>
While == <<"w", "h", "i", "l", "e">>
Return == <<"r", "e", "t", "u", "r", "n">>

\* KEYWORDS
KEYWORDS ==
    (If :> "IF") @@ (Else :> "ELSE") @@ (While :> "WHILE") @@ (Return :> "RETURN")

\* the keyword lookup written as a test of the start of the text
KeywordGet_ByPrefix(value) ==
    LET heads == { w \in DOMAIN KEYWORDS :
                     Len(w) <= Len(value) /\ SubSeq(value, 1, Len(w)) = w }
    IN  IF heads # {} THEN KEYWORDS[CHOOSE w \in heads : TRUE]
        ELSE "IDENTIFIER"

\* KEYWORDS.get(value, TokenType.IDENTIFIER)
KeywordGet(value) ==
    IF value \in DOMAIN KEYWORDS THEN KEYWORDS[value] ELSE "IDENTIFIER"

\* the table with '=' listed before '==' and '!='
TOKEN_PATTERNS_AssignFirst ==
    << Rule("whitespace", <<>>, "None"),
       Rule("comment", <<>>, "None"),
       Rule("literal", <<"\n">>, "None"),
       Rule("number", <<>>, "NUMBER"),
       Rule("string", <<>>, "STRING"),
       Rule("identifier", <<>>, "IDENTIFIER"),
       Rule("literal", <<"=">>, "ASSIGN"),
       Rule("literal", <<"=", "=">>, "EQUALS"),
       Rule("literal", <<"!", "=">>, "NOT_EQUALS"),
       Rule("literal", <<"+">>, "PLUS"),
       Rule("literal", <<"-">>, "MINUS"),
       Rule("literal", <<"*">>, "MULTIPLY"),
       Rule("literal", <<"/">>, "DIVIDE"),
       Rule("literal", <<"<">>, "LESS_THAN"),
       Rule("literal", <<">">>, "GREATER_THAN"),
       Rule("literal", <<"(">>, "LPAREN"),
       Rule("literal", <<")">>, "RPAREN"),
       Rule("literal", <<"{">>, "LBRACE"),
       Rule("literal", <<"}">>, "RBRACE"),
       Rule("literal", <<";">>, "SEMICOLON"),
       Rule("literal", <<",">>, "COMMA") >>

\* TOKEN_PATTERNS, in the order of the list; type "None" marks a skipped rule
TOKEN_PATTERNS ==
    << Rule("whitespace", <<>>, "None"),
       Rule("comment", <<>>, "None"),
       Rule("literal", <<"\n">>, "None"),
       Rule("number", <<>>, "NUMBER"),
       Rule("string", <<>>, "STRING"),
       Rule("identifier", <<>>, "IDENTIFIER"),
       Rule("literal", <<"=", "=">>, "EQUALS"),
       Rule("literal", <<"!", "=">>, "NOT_EQUALS"),
       Rule("literal", <<"=">>, "ASSIGN"),
       Rule("literal", <<"+">>, "PLUS"),
       Rule("literal", <<"-">>, "MINUS"),
       Rule("literal", <<"*">>, "MULTIPLY"),
       Rule("literal", <<"/">>, "DIVIDE"),
       Rule("literal", <<"<">>, "LESS_THAN"),
       Rule("literal", <<">">>, "GREATER_THAN"),
       Rule("literal", <<"(">>, "LPAREN"),
       Rule("literal", <<")">>, "RPAREN"),
       Rule("literal", <<"{">>, "LBRACE"),
       Rule("literal", <<"}">>, "RBRACE"),
       Rule("literal", <<";">>, "SEMICOLON"),
       Rule("literal", <<",">>, "COMMA") >>

\* Token(type, value, line, column)
Token(type, value, ln, col) ==
    [type |-> type, value |-> value, line |-> ln, column |-> col]

----------------------------------------------------------------------------
(* One iteration of the scan loop, as a function of the scanner's state    *)
(* s = [position, line, column, tokens] extended with two history fields:  *)
(* starts, the offset at which each token of s.tokens was produced, and    *)
(* consumed, the concatenation of every text the loop has matched.         *)

\* the for loop over TOKEN_PATTERNS from rule k on: the index of the first
\* rule that matches at offset p, 0 when the loop ends without a match
RECURSIVE FirstMatchFrom(_, _, _)
FirstMatchFrom(src, p, k) ==
    IF k > Len(TOKEN_PATTERNS) THEN 0
    ELSE IF MatchLen(TOKEN_PATTERNS[k], src, p) > 0 THEN k
    ELSE FirstMatchFrom(src, p, k + 1)

FirstMatch(src, p) == FirstMatchFrom(src, p, 1)

\* value == '\n' : the line counter advances, the column restarts
NewlineBranch(s, value) ==
    [s EXCEPT !.line = s.line + 1,
              !.column = 1,
              !.consumed = s.consumed \o value]

\* token_type is not None : a token is appended, the column advances
TokenBranch(s, token_type, value) ==
    LET type == IF token_type = "IDENTIFIER" THEN KeywordGet(value)
                ELSE token_type
    IN  [s EXCEPT !.tokens = Append(s.tokens,
                                    Token(type, value, s.line, s.column)),
                  !.column = s.column + Len(value),
                  !.starts = Append(s.starts, s.position),
                  !.consumed = s.consumed \o value]

\* whitespace and comments : only the column advances
SkipBranch(s, value) ==
    [s EXCEPT !.column = s.column + Len(value),
              !.consumed = s.consumed \o value]

\* the fallback written to take the character after the cursor as well
UnknownBranch_TwoChars(src, s) ==
    LET n == IF s.position + 1 < Len(src) THEN 2 ELSE 1
        chars == Slice(src, s.position, n)
    IN  [s EXCEPT !.tokens = Append(s.tokens,
                                    Token("UNKNOWN", chars, s.line, s.column)),
                  !.position = s.position + n,
                  !.column = s.column + n,
                  !.starts = Append(s.starts, s.position),
                  !.consumed = s.consumed \o chars]

\* not matched : one UNKNOWN token for the character at the cursor
UnknownBranch(src, s) ==
    LET char == CharAt(src, s.position)
    IN  [s EXCEPT !.tokens = Append(s.tokens,
                                    Token("UNKNOWN", <<char>>, s.line, s.column)),
                  !.position = s.position + 1,
                  !.column = s.column + 1,
                  !.starts = Append(s.starts, s.position),
                  !.consumed = Append(s.consumed, char)]

\* the loop body written to move the cursor one character after a match
\* instead of to match.end()
Iterate_AdvancesByOne(src, s) ==
    LET k == FirstMatch(src, s.position)
    IN  IF k # 0
        THEN LET rule == TOKEN_PATTERNS[k]
                 value == Slice(src, s.position,
                                MatchLen(rule, src, s.position))
                 after ==
                     IF value = <<"\n">> THEN NewlineBranch(s, value)
                     ELSE IF rule.type # "None"
                          THEN TokenBranch(s, rule.type, value)
                          ELSE SkipBranch(s, value)
             IN  [after EXCEPT !.position = s.position + 1]
        ELSE UnknownBranch(src, s)

\* the body of the while loop
Iterate(src, s) ==
    LET k == FirstMatch(src, s.position)
    IN  IF k # 0
        THEN LET rule == TOKEN_PATTERNS[k]
                 value == Slice(src, s.position,
                                MatchLen(rule, src, s.position))
                 after ==
                     IF value = <<"\n">> THEN NewlineBranch(s, value)
                     ELSE IF rule.type # "None"
                          THEN TokenBranch(s, rule.type, value)
                          ELSE SkipBranch(s, value)
             IN  [after EXCEPT !.position = s.position + Len(value)]
        ELSE UnknownBranch(src, s)

\* the while loop, run to its end
RECURSIVE RunLoop(_, _)
RunLoop(src, s) ==
    IF s.position < Len(src) THEN RunLoop(src, Iterate(src, s)) ELSE s

\* the state Tokenizer.__init__ sets
Fresh ==
    [position |-> 0, line |-> 1, column |-> 1, tokens |-> <<>>,
     starts |-> <<>>, consumed |-> <<>>]

\* the EOF token appended after the loop
EofToken(s) == Token("EOF", <<>>, s.line, s.column)

\* the list tokenize() returns on a fresh Tokenizer(src)
TokenizeFresh(src) ==
    LET s == RunLoop(src, Fresh) IN Append(s.tokens, EofToken(s))

----------------------------------------------------------------------------
(* The state machine: one Tokenizer object and the calls of tokenize().    *)
(* pc is "idle" outside tokenize() and "loop" inside it.  returned holds,  *)
(* for each call that has returned, the contents of the list at the moment *)
(* it was returned; the object returned is self.tokens itself.             *)

Scanner ==
    [position |-> position, line |-> line, column |-> column,
     tokens |-> tokens, starts |-> starts, consumed |-> consumed]

Init ==
    /\ source_code \in Sources
    /\ position = 0
    /\ line = 1
    /\ column = 1
    /\ tokens = <<>>
    /\ pc = "idle"
    /\ returned = <<>>
    /\ starts = <<>>
    /\ consumed = <<>>

\* tokenize() is entered
Call ==
    /\ pc = "idle"
    /\ Len(returned) < MaxCalls
    /\ pc' = "loop"
    /\ UNCHANGED <<source_code, position, line, column, tokens,
                   returned, starts, consumed>>

InLoop == pc = "loop" /\ position < Len(source_code)

Matched == FirstMatch(source_code, position) # 0

MatchedRule == TOKEN_PATTERNS[FirstMatch(source_code, position)]

MatchedValue ==
    Slice(source_code, position, MatchLen(MatchedRule, source_code, position))

\* the variables after one iteration of the loop
Step ==
    LET s == Iterate(source_code, Scanner)
    IN  /\ position' = s.position
        /\ line' = s.line
        /\ column' = s.column
        /\ tokens' = s.tokens
        /\ starts' = s.starts
        /\ consumed' = s.consumed
        /\ UNCHANGED <<source_code, pc, returned>>

\* an iteration that matches a newline
SkipNewline ==
    /\ InLoop
    /\ Matched
    /\ MatchedValue = <<"\n">>
    /\ Step

\* an iteration that matches a rule with a token type
EmitToken ==
    /\ InLoop
    /\ Matched
    /\ MatchedValue # <<"\n">>
    /\ MatchedRule.type # "None"
    /\ Step

\* an iteration that matches whitespace or a comment
SkipFragment ==
    /\ InLoop
    /\ Matched
    /\ MatchedValue # <<"\n">>
    /\ MatchedRule.type = "None"
    /\ Step

\* an iteration in which no rule matches
EmitUnknown ==
    /\ InLoop
    /\ ~Matched
    /\ Step

\* the loop ends: the EOF token is appended and self.tokens is returned
ReturnTokens ==
    /\ pc = "loop"
    /\ ~(position < Len(source_code))
    /\ tokens' = Append(tokens, EofToken(Scanner))
    /\ starts' = Append(starts, position)
    /\ returned' = Append(returned, tokens')
    /\ pc' = "idle"
    /\ UNCHANGED <<source_code, position, line, column, consumed>>

Next ==
    \/ Call
    \/ SkipNewline
    \/ EmitToken
    \/ SkipFragment
    \/ EmitUnknown
    \/ ReturnTokens

Spec == Init /\ [][Next]_vars

TypeOK ==
    /\ position \in 0..Len(source_code)
    /\ Len(starts) = Len(tokens)

----------------------------------------------------------------------------
(* Positions in the original source, counted from the text itself.         *)

\* the 1-based indexes of the newline characters before offset off
NewlinesBefore(src, off) == { j \in 1..off : src[j] = "\n" }

\* the 1-based line of offset off: 1 + the newlines before it
LineAt(src, off) == 1 + Cardinality(NewlinesBefore(src, off))

\* the 1-based column of offset off: 1 + the characters between the last
\* newline before it (or the start of the text) and the offset
ColumnAt(src, off) ==
    LET nl == NewlinesBefore(src, off)
        last == IF nl = {} THEN 0 ELSE CHOOSE j \in nl : \A i \in nl : i <= j
    IN  off - last + 1

\* the number of EOF tokens of a token list
EofCount(toks) == Cardinality({ k \in DOMAIN toks : toks[k].type = "EOF" })

\* the list returned by the latest call
LastReturned == returned[Len(returned)]

----------------------------------------------------------------------------
(* C1: totality of tokenize.                                               *)

\* C1: every iteration of the scan loop strictly increases the cursor (and
\* keeps it within the text, so the loop ends), and every list tokenize
\* returns is non-empty, ends in an EOF token with empty text whose line and
\* column are the scanner's counters at loop exit, and holds no other EOF.
C1_TokenizeTotal ==
    [][ /\ InLoop => position' > position /\ position' <= Len(source_code)
        /\ returned' # returned =>
             LET r == returned'[Len(returned')]
             IN  /\ Len(r) >= 1
                 /\ r[Len(r)] = Token("EOF", <<>>, line, column)
                 /\ EofCount(r) = 1 ]_vars

\* the same on the first call of a Tokenizer only
C1_FirstCallTotal ==
    [][ /\ InLoop => position' > position /\ position' <= Len(source_code)
        /\ returned = <<>> /\ returned' # returned =>
             LET r == returned'[1]
             IN  /\ Len(r) >= 1
                 /\ r[Len(r)] = Token("EOF", <<>>, line, column)
                 /\ EofCount(r) = 1
                 /\ r = TokenizeFresh(source_code) ]_vars

----------------------------------------------------------------------------
(* C2: line and column of a token are the position of its first character. *)

\* C2: every token other than EOF carries the 1-based line and column of
\* its start offset in the source: line = 1 + newlines before the offset,
\* column = 1 + characters since the last newline before the offset.
C2_PositionIsFirstCharacter ==
    \A k \in DOMAIN tokens :
        tokens[k].type # "EOF" =>
            /\ tokens[k].line = LineAt(source_code, starts[k])
            /\ tokens[k].column = ColumnAt(source_code, starts[k])

\* does a STRING token of the list hold a newline
StringSpansLines(toks) ==
    \E k \in DOMAIN toks :
        /\ toks[k].type = "STRING"
        /\ \E j \in DOMAIN toks[k].value : toks[k].value[j] = "\n"

\* the positions are right as long as no string literal spans a line break
C2_PositionUnlessMultilineString ==
    ~StringSpansLines(tokens) => C2_PositionIsFirstCharacter

----------------------------------------------------------------------------
(* C8: the returned list is never changed afterwards.                      *)

\* C8: once tokenize has returned the list, no later step changes it, and a
\* later call returns an equal list.
C8_ReturnedListImmutable ==
    [][ returned # <<>> =>
          /\ tokens' = tokens
          /\ \A i \in DOMAIN returned' : returned'[i] = returned[1] ]_vars

----------------------------------------------------------------------------
(* C9: tokens are ordered by position.                                     *)

\* (l1, c1) is before (l2, c2) in lexicographic order
LexLess(l1, c1, l2, c2) == l1 < l2 \/ (l1 = l2 /\ c1 < c2)

\* t2 starts after the end of t1, or on a later line
Follows(t1, t2) ==
    \/ t1.line < t2.line
    \/ t1.line = t2.line /\ t1.column + Len(t1.value) <= t2.column

\* C9: in the token list the (line, column) pairs of adjacent tokens, the
\* EOF token included, strictly increase, each token starting at or after
\* the end of the one before it.
C9_PositionsStrictlyIncrease ==
    \A k \in 1..(Len(tokens) - 1) :
        /\ LexLess(tokens[k].line, tokens[k].column,
                   tokens[k + 1].line, tokens[k + 1].column)
        /\ Follows(tokens[k], tokens[k + 1])

\* the same for the list of the first call
C9_FirstCallPositionsIncrease ==
    Len(returned) <= 1 /\ ~(Len(returned) = 1 /\ pc = "loop")
        => C9_PositionsStrictlyIncrease

\* each token starts at or after the end of the one before it
C9_EachFollowsThePrevious ==
    \A k \in 1..(Len(tokens) - 1) : Follows(tokens[k], tokens[k + 1])

----------------------------------------------------------------------------
(* Helpers of the claims about what the scan does at one cursor position.  *)

Quote == "\""

\* no rule of the table matches at offset p
NoRuleMatches(src, p) ==
    \A k \in DOMAIN TOKEN_PATTERNS : MatchLen(TOKEN_PATTERNS[k], src, p) = 0

\* src from offset p to its end
Suffix(src, p) == SubSeq(src, p + 1, Len(src))

\* the kinds and texts of the tokens of a list, EOF tokens left out
IsNotEof(t) == t.type # "EOF"

KindsAndTexts(toks) ==
    LET real == SelectSeq(toks, IsNotEof)
    IN  [k \in DOMAIN real |-> <<real[k].type, real[k].value>>]

\* once the scan has reached the end of the text, the tokens that follow
\* token k are the tokens the rules give for the text after offset p
RestScannedNormally(k, p) ==
    position = Len(source_code) =>
        KindsAndTexts(SubSeq(tokens, k + 1, Len(tokens)))
            = KindsAndTexts(RunLoop(Suffix(source_code, p), Fresh).tokens)

\* the token the step appends, if it appends one
Appended(toks, toks2, tok) == toks2 = Append(toks, tok)

----------------------------------------------------------------------------
(* C3: two-character operators before their one-character prefixes.       *)

C3_AtCursor ==
    InLoop =>
        /\ LitAt(source_code, position, <<"=", "=">>) =>
              /\ Appended(tokens, tokens',
                          Token("EQUALS", <<"=", "=">>, line, column))
              /\ position' = position + 2
        /\ LitAt(source_code, position, <<"!", "=">>) =>
              /\ Appended(tokens, tokens',
                          Token("NOT_EQUALS", <<"!", "=">>, line, column))
              /\ position' = position + 2

C3_InTheList ==
    \A k \in DOMAIN tokens :
        (\/ tokens[k].type = "ASSIGN"
         \/ tokens[k].type = "UNKNOWN" /\ tokens[k].value = <<"!">>)
            => ~LitAt(source_code, starts[k] + 1, <<"=">>)

\* C3: with the cursor at "==" the step appends exactly one EQUALS token
\* "==", with the cursor at "!=" exactly one NOT_EQUALS token "!="; and no
\* ASSIGN token and no UNKNOWN "!" token starts at an offset whose next
\* source character is "=".
C3_TwoCharOperatorsFirst ==
    [][C3_AtCursor]_vars /\ []C3_InTheList

\* "===" has been scanned: one EQUALS, then one ASSIGN before the end
C3_Witness ==
    /\ Len(tokens) >= 2
    /\ tokens[1].type = "EQUALS" /\ starts[1] = 0
    /\ tokens[2].type = "ASSIGN" /\ starts[2] = 2

----------------------------------------------------------------------------
(* C4: keyword exactness.                                                  *)

\* the kind the claim gives to an identifier-shaped text
ExpectedKind(text) ==
    CASE text = <<"i", "f">> -> "IF"
      [] text = <<"e", "l", "s", "e">> -> "ELSE"
      [] text = <<"w", "h", "i", "l", "e">> -> "WHILE"
      [] text = <<"r", "e", "t", "u", "r", "n">> -> "RETURN"
      [] OTHER -> "IDENTIFIER"

C4_AtCursor ==
    InLoop /\ CharAt(source_code, position) \in IdentStart =>
        LET n == 1 + RunLen(source_code, position + 1, IdentPart)
            text == Slice(source_code, position, n)
        IN  /\ Appended(tokens, tokens',
                        Token(ExpectedKind(text), text, line, column))
            /\ position' = position + n
            /\ column' = column + n
            /\ line' = line

C4_InTheList ==
    \A k \in DOMAIN tokens :
        tokens[k].type \in {"IF", "ELSE", "WHILE", "RETURN", "IDENTIFIER"} =>
            tokens[k].type = ExpectedKind(tokens[k].value)

\* C4: with the cursor at a letter or underscore, the step appends one token
\* whose text is the maximal run of letters, digits and underscores there,
\* whose line and column are the counters before the step, and whose kind is
\* IF, ELSE, WHILE or RETURN exactly when the text is that word, IDENTIFIER
\* otherwise; the counters advance by the length of the text either way.
C4_KeywordExactness ==
    [][C4_AtCursor]_vars /\ []C4_InTheList

\* a reserved word and a plain identifier in one list
C4_Witness ==
    /\ \E k \in DOMAIN tokens :
          tokens[k].type = "WHILE" /\ tokens[k].value = <<"w", "h", "i", "l", "e">>
    /\ \E k \in DOMAIN tokens : tokens[k].type = "IDENTIFIER"

----------------------------------------------------------------------------
(* C5: fallback progress.                                                  *)

C5_AtCursor ==
    InLoop =>
        LET char == CharAt(source_code, position)
        IN  /\ NoRuleMatches(source_code, position) =>
                  /\ Appended(tokens, tokens',
                              Token("UNKNOWN", <<char>>, line, column))
                  /\ position' = position + 1
                  /\ column' = column + 1
                  /\ line' = line
                  /\ pc' = "loop"
            /\ ~NoRuleMatches(source_code, position) =>
                  \A k \in DOMAIN tokens' :
                      k > Len(tokens) => tokens'[k].type # "UNKNOWN"

C5_InTheList ==
    \A k \in DOMAIN tokens :
        tokens[k].type = "UNKNOWN" =>
            /\ Len(tokens[k].value) = 1
            /\ tokens[k].value = <<CharAt(source_code, starts[k])>>
            /\ NoRuleMatches(source_code, starts[k])
            /\ (/\ starts[k] + 1 < position
                /\ NoRuleMatches(source_code, starts[k] + 1))
                  => /\ k + 1 <= Len(tokens)
                     /\ tokens[k + 1].type = "UNKNOWN"
                     /\ starts[k + 1] = starts[k] + 1
            /\ RestScannedNormally(k, starts[k] + 1)

\* C5: a step appends an UNKNOWN token exactly when no rule matches at the
\* cursor; the token holds the one character at the cursor with the current
\* line and column, cursor and column advance by one and the loop goes on;
\* every UNKNOWN token has a text of length 1, an unrecognized character
\* right after one gets an UNKNOWN token of its own, and the text after it
\* is tokenized as the rules tokenize it.
C5_FallbackProgress ==
    [][C5_AtCursor]_vars /\ []C5_InTheList

\* "@@i" has been scanned: two UNKNOWN tokens, then an identifier
C5_Witness ==
    /\ Len(tokens) >= 3
    /\ tokens[1].type = "UNKNOWN" /\ tokens[1].value = <<"@">>
    /\ tokens[2].type = "UNKNOWN" /\ tokens[2].value = <<"@">>
    /\ tokens[3].type = "IDENTIFIER"

----------------------------------------------------------------------------
(* C6: unterminated string.                                                *)

\* no double-quote occurs in src after offset p
NoQuoteAfter(src, p) == \A j \in (p + 2)..Len(src) : src[j] # Quote

C6_AtCursor ==
    (/\ InLoop
     /\ CharAt(source_code, position) = Quote
     /\ NoQuoteAfter(source_code, position)) =>
        /\ StringMatch(source_code, position) = 0
        /\ Appended(tokens, tokens', Token("UNKNOWN", <<Quote>>, line, column))
        /\ position' = position + 1

C6_InTheList ==
    \A k \in DOMAIN tokens :
        /\ tokens[k].type = "STRING" =>
              LET v == tokens[k].value
              IN  /\ Len(v) >= 2
                  /\ v[1] = Quote
                  /\ v[Len(v)] = Quote
                  /\ \A j \in 2..(Len(v) - 1) : v[j] # Quote
        /\ (tokens[k].type = "UNKNOWN" /\ tokens[k].value = <<Quote>>) =>
              /\ NoQuoteAfter(source_code, starts[k])
              /\ RestScannedNormally(k, starts[k] + 1)

\* C6: with the cursor at a double-quote that no later double-quote follows,
\* the string rule does not match and the step appends exactly one UNKNOWN
\* token for the quote and moves the cursor to the next character, from
\* where the text is tokenized as the rules tokenize it; every STRING token
\* starts and ends with a quote and holds no other quote.
C6_UnterminatedString ==
    [][C6_AtCursor]_vars /\ []C6_InTheList

\* an unterminated quote followed by a reserved word, scanned to the end
C6_Witness ==
    /\ Len(tokens) >= 2
    /\ tokens[1] = Token("UNKNOWN", <<Quote>>, 1, 1)
    /\ tokens[2] = Token("IF", <<"i", "f">>, 1, 2)

----------------------------------------------------------------------------
(* C7: comment elision.                                                    *)

\* the length of the comment at offset p: the "#" and every character up to
\* but not including the next newline or the end of the text
CommentLen(src, p) == 1 + RunLenNot(src, p + 1, {"\n"})

\* src without the n characters from offset p
Without(src, p, n) == SubSeq(src, 1, p) \o Suffix(src, p + n)

\* two token lists with the same kinds, texts and lines throughout, and the
\* same columns except for a final EOF
SameTokens(a, b) ==
    /\ Len(a) = Len(b)
    /\ \A k \in DOMAIN a :
          /\ a[k].type = b[k].type
          /\ a[k].value = b[k].value
          /\ a[k].line = b[k].line
          /\ a[k].type # "EOF" => a[k].column = b[k].column

C7_AtCursor ==
    /\ (InLoop /\ CharAt(source_code, position) = "#") =>
          LET n == CommentLen(source_code, position)
          IN  /\ tokens' = tokens
              /\ position' = position + n
              /\ column' = column + n
              /\ line' = line
              /\ (position' < Len(source_code) =>
                     CharAt(source_code, position') = "\n")
    /\ (InLoop /\ CharAt(source_code, position) = "\n") =>
          /\ tokens' = tokens
          /\ position' = position + 1
          /\ line' = line + 1
          /\ column' = 1

C7_AsIfAbsent ==
    (InLoop /\ CharAt(source_code, position) = "#") =>
        SameTokens(TokenizeFresh(source_code),
                   TokenizeFresh(Without(source_code, position,
                                         CommentLen(source_code, position))))

\* C7: with the cursor at "#", the step discards every character up to but
\* not including the next newline or the end of the text, appends no token
\* and advances the column by the comment's length; the step at a newline
\* appends no token, adds one to the line and sets the column to 1; and the
\* scan yields the tokens, with the lines, it yields for the text without
\* the comment.
C7_CommentElision ==
    [][C7_AtCursor]_vars /\ []C7_AsIfAbsent

\* a comment that holds a quote, the newline ending it and an identifier
\* after it have been scanned: the identifier is the only token
C7_Witness ==
    /\ source_code = <<"#", Quote, "\n", "i">>
    /\ position = 4
    /\ tokens = <<Token("IDENTIFIER", <<"i">>, 2, 1)>>

----------------------------------------------------------------------------
(* C10: no source character is lost, duplicated or reordered.              *)

\* C10: the texts matched so far, emitted or discarded, concatenate to the
\* source up to the cursor, so to the whole source once tokenize has
\* returned; each token other than EOF holds the source text at the offset
\* where it was matched; and the tokens cover disjoint, increasing ranges.
C10_NoCharacterLost ==
    /\ consumed = Slice(source_code, 0, position)
    /\ returned # <<>> => consumed = source_code
    /\ \A k \in DOMAIN tokens :
          tokens[k].type # "EOF" =>
              /\ tokens[k].value
                    = Slice(source_code, starts[k], Len(tokens[k].value))
              /\ Len(tokens[k].value) >= 1
              /\ starts[k] + Len(tokens[k].value) <= position
              /\ \A j \in DOMAIN tokens :
                    (j > k /\ tokens[j].type # "EOF") =>
                        starts[k] + Len(tokens[k].value) <= starts[j]

\* "i 1" has been tokenized: two tokens around a discarded blank
C10_Witness ==
    /\ returned # <<>>
    /\ source_code = <<"i", " ", "1">>
    /\ Len(tokens) >= 3
    /\ tokens[1].type = "IDENTIFIER"
    /\ tokens[2].type = "NUMBER" /\ starts[2] = 2

====
